---- MODULE Spec2Model ----
(***************************************************************************)
(* Model of src/app.py: the Streamlit report script.  One run of the       *)
(* script reads the two uploaded workbooks, derives the purchasing         *)
(* category code, drops test records, left-joins the cluster mapping,      *)
(* derives the organisation group and the month, applies the two           *)
(* multiselect filters and builds the aggregate tables.  Streamlit runs    *)
(* the whole script again after every interaction.                         *)
(*                                                                         *)
(* Data frames are sequences of records.  A text cell is a sequence of     *)
(* one-character strings; the missing value of each column type has its    *)
(* own marker (NaNText, NA, NaT, NaNMonth, NaN).                           *)
(***************************************************************************)
EXTENDS Integers, Sequences, FiniteSets, TLC

VARIABLES export_file, sms_file, widgets, observed, out

vars == <<export_file, sms_file, widgets, observed, out>>

(***************************************************************************)
(* Missing values.                                                         *)
(***************************************************************************)
NaNText == <<"NaN">>
NA == <<-1>>
NaT == <<0, 0, 0>>
NaNMonth == 0
NaN == "NaN"
NaNCell == -1

(***************************************************************************)
(* Bounds of the checked input spaces.                                     *)
(***************************************************************************)
MaxMaterialLen == 4
MaxNameLen == 4
MaxRows == 2
MaxMapRows == 2
MaxToggled == 2
MaxSessionRows == 2

(***************************************************************************)
(* Characters.                                                             *)
(***************************************************************************)
Digits == <<"0", "1", "2", "3", "4", "5", "6", "7", "8", "9">>

IsDigit(c) == \E d \in 1..Len(Digits) : Digits[d] = c

DigitVal(c) == (CHOOSE d \in 1..Len(Digits) : Digits[d] = c) - 1

Upper == <<"T", "E", "S">>
Lower == <<"t", "e", "s">>

\* str.lower() on the characters of the model's alphabets.
lower_char(c) ==
  IF \E k \in 1..Len(Upper) : Upper[k] = c
  THEN Lower[CHOOSE k \in 1..Len(Upper) : Upper[k] = c]
  ELSE c

lower(s) == [i \in 1..Len(s) |-> lower_char(s[i])]

\* The exclusion without .str.lower().
str_lower_skipped(cell) == cell

\* Series.str.lower(): a missing cell stays missing.
str_lower(cell) == IF cell = NaNText THEN NaNText ELSE lower(cell)

test == <<"t", "e", "s", "t">>

RECURSIVE find(_, _, _)
\* re.search of a literal pattern: the scan from position i.
find(s, pat, i) ==
  IF i + Len(pat) - 1 > Len(s) THEN FALSE
  ELSE IF SubSeq(s, i, i + Len(pat) - 1) = pat THEN TRUE
  ELSE find(s, pat, i + 1)

\* Series.str.contains(pat, na=False): a missing cell gives False.
str_contains(cell, pat) == IF cell = NaNText THEN FALSE ELSE find(cell, pat, 1)

(***************************************************************************)
(* r"\[(\d+)\]": the first bracketed digit run.                            *)
(***************************************************************************)
RECURSIVE DigitRunEnd(_, _)
\* The position after the longest digit run that starts at k.
DigitRunEnd(s, k) ==
  IF k <= Len(s) /\ IsDigit(s[k]) THEN DigitRunEnd(s, k + 1) ELSE k

MatchAt(s, i) ==
  /\ s[i] = "["
  /\ LET e == DigitRunEnd(s, i + 1)
     IN e > i + 1 /\ e <= Len(s) /\ s[e] = "]"

RECURSIVE re_search(_, _)
\* The leftmost match at or after i: the captured group, or NaNText.
re_search(s, i) ==
  IF i > Len(s) THEN NaNText
  ELSE IF MatchAt(s, i) THEN SubSeq(s, i + 1, DigitRunEnd(s, i + 1) - 1)
  ELSE re_search(s, i + 1)

\* Series.str.extract(r"\[(\d+)\]"): a missing cell stays missing.
str_extract(cell) == IF cell = NaNText THEN NaNText ELSE re_search(cell, 1)

(***************************************************************************)
(* .astype(float).astype("Int64").  A natural number is a sequence of      *)
(* decimal digits, most significant first, without leading zeros; the      *)
(* float64 value of a digit run is held as the bits of its integer value.  *)
(***************************************************************************)
FloatMantissa == 53
Int64Bits == 63

RECURSIVE Strip(_)
Strip(d) == IF d # <<>> /\ d[1] = 0 THEN Strip(Tail(d)) ELSE d

Canon(d) == IF Strip(d) = <<>> THEN <<0>> ELSE Strip(d)

Limb == 256
LimbBits == 8

RECURSIVE DivFrom(_, _, _)
\* Long division by Limb from digit i with the carried remainder.
DivFrom(d, i, carry) ==
  IF i > Len(d) THEN <<>>
  ELSE LET v == carry * 10 + d[i]
       IN <<v \div Limb>> \o DivFrom(d, i + 1, v % Limb)

RECURSIVE ModFrom(_, _, _)
ModFrom(d, i, carry) ==
  IF i > Len(d) THEN carry ELSE ModFrom(d, i + 1, (carry * 10 + d[i]) % Limb)

RECURSIVE ToLimbs(_)
\* The base-256 digits, most significant first, of a stripped decimal number.
ToLimbs(d) ==
  IF d = <<>> THEN <<>>
  ELSE Append(ToLimbs(Strip(DivFrom(d, 1, 0))), ModFrom(d, 1, 0))

\* Bit j (1 = most significant) of the limb sequence l.
LimbBit(l, j) ==
  LET limb == l[((j - 1) \div LimbBits) + 1]
      k == LimbBits - 1 - ((j - 1) % LimbBits)
  IN (limb \div (2 ^ k)) % 2

StripBits(b) ==
  IF \A i \in 1..Len(b) : b[i] = 0 THEN <<>>
  ELSE LET first == CHOOSE i \in 1..Len(b) :
                      b[i] = 1 /\ \A j \in 1..(i - 1) : b[j] = 0
       IN SubSeq(b, first, Len(b))

\* Binary digits, most significant first, of a stripped decimal number.
ToBits(d) ==
  LET l == ToLimbs(d)
  IN StripBits([j \in 1..(LimbBits * Len(l)) |-> LimbBit(l, j)])

\* The limbs of a bit sequence (padded on the left to whole limbs).
BitsToLimbs(b) ==
  LET n == (Len(b) + LimbBits - 1) \div LimbBits
      pad == n * LimbBits - Len(b)
      bit(j) == IF j <= pad THEN 0 ELSE b[j - pad]
      value(q) == bit(q + 1) * 128 + bit(q + 2) * 64 + bit(q + 3) * 32
                  + bit(q + 4) * 16 + bit(q + 5) * 8 + bit(q + 6) * 4
                  + bit(q + 7) * 2 + bit(q + 8)
  IN [i \in 1..n |-> value((i - 1) * LimbBits)]

RECURSIVE MulAddFrom(_, _, _)
\* Limb * d + carry, from the last digit i down to the first.
MulAddFrom(d, i, carry) ==
  IF i = 0 THEN (IF carry = 0 THEN <<>>
                 ELSE Append(MulAddFrom(<<>>, 0, carry \div 10), carry % 10))
  ELSE LET v == Limb * d[i] + carry
       IN Append(MulAddFrom(d, i - 1, v \div 10), v % 10)

RECURSIVE LimbsToDec(_, _)
\* Horner's rule over the first n limbs.
LimbsToDec(l, n) ==
  IF n = 0 THEN <<>>
  ELSE LET front == LimbsToDec(l, n - 1)
       IN Strip(MulAddFrom(front, Len(front), l[n]))

\* The decimal digits of a binary number.
FromBits(b) == LET l == BitsToLimbs(b) IN LimbsToDec(l, Len(l))

\* Binary increment.
Inc(b) ==
  IF \A i \in 1..Len(b) : b[i] = 1 THEN <<1>> \o [i \in 1..Len(b) |-> 0]
  ELSE LET p == CHOOSE i \in 1..Len(b) :
                  b[i] = 0 /\ \A j \in (i + 1)..Len(b) : b[j] = 1
       IN [i \in 1..Len(b) |-> IF i < p THEN b[i] ELSE IF i = p THEN 1 ELSE 0]

Zeros(n) == [i \in 1..n |-> 0]

\* float(): round to nearest, ties to even, to a 53-bit significand.
to_float(b) ==
  IF Len(b) <= FloatMantissa THEN b
  ELSE LET m == SubSeq(b, 1, FloatMantissa)
           guard == b[FloatMantissa + 1]
           sticky == \E k \in (FloatMantissa + 2)..Len(b) : b[k] = 1
           up == guard = 1 /\ (sticky \/ m[FloatMantissa] = 1)
       IN (IF up THEN Inc(m) ELSE m) \o Zeros(Len(b) - FloatMantissa)

\* The float64 of one extracted cell: NaN stays NaN.
astype_float(cell) ==
  IF cell = NaNText THEN NA
  ELSE to_float(ToBits(Strip([i \in 1..Len(cell) |-> DigitVal(cell[i])])))

\* IntegerArray's safe cast refuses a float that int64 does not hold.
Int64Overflows(f) == f # NA /\ Len(f) > Int64Bits

astype_Int64(f) == IF f = NA THEN NA ELSE Canon(FromBits(f))

\* Lines 30-31 for one Material cell.
PurchasingCategory(cell) == astype_Int64(astype_float(str_extract(cell)))

(***************************************************************************)
(* pd.to_datetime(format="%d/%m/%Y", errors="coerce") on one text cell.    *)
(***************************************************************************)
Number(s) ==
  IF Len(s) = 1 THEN DigitVal(s[1])
  ELSE IF Len(s) = 2 THEN 10 * DigitVal(s[1]) + DigitVal(s[2])
  ELSE 1000 * DigitVal(s[1]) + 100 * DigitVal(s[2])
       + 10 * DigitVal(s[3]) + DigitVal(s[4])

AllDigits(s) == \A i \in 1..Len(s) : IsDigit(s[i])

\* %d: 3[0-1] | [1-2]\d | 0[1-9] | [1-9] | " "[1-9]
MatchesDay(s) ==
  \/ Len(s) = 2 /\ AllDigits(s) /\ Number(s) \in 1..31
  \/ Len(s) = 1 /\ AllDigits(s) /\ Number(s) \in 1..9
  \/ Len(s) = 2 /\ s[1] = " " /\ IsDigit(s[2]) /\ DigitVal(s[2]) \in 1..9

\* %m: 1[0-2] | 0[1-9] | [1-9]
MatchesMonth(s) ==
  \/ Len(s) = 2 /\ AllDigits(s) /\ Number(s) \in 1..12
  \/ Len(s) = 1 /\ AllDigits(s) /\ Number(s) \in 1..9

\* %Y: \d\d\d\d
MatchesYear(s) == Len(s) = 4 /\ AllDigits(s)

IsLeap(y) == y % 4 = 0 /\ (y % 100 # 0 \/ y % 400 = 0)

DaysInMonth(y, m) ==
  IF m = 2 THEN (IF IsLeap(y) THEN 29 ELSE 28)
  ELSE IF m \in {4, 6, 9, 11} THEN 30 ELSE 31

Slashes(s) == {i \in 1..Len(s) : s[i] = "/"}

\* The whole text must match day/month/year and name a calendar day.
strptime(s) ==
  IF Cardinality(Slashes(s)) # 2 THEN NaT
  ELSE LET p1 == CHOOSE i \in Slashes(s) : \A j \in Slashes(s) : i <= j
           p2 == CHOOSE i \in Slashes(s) : \A j \in Slashes(s) : j <= i
           D == SubSeq(s, 1, p1 - 1)
           M == SubSeq(s, p1 + 1, p2 - 1)
           Y == SubSeq(s, p2 + 1, Len(s))
       IN IF MatchesDay(D) /\ MatchesMonth(M) /\ MatchesYear(Y)
          THEN LET d == IF D[1] = " " THEN DigitVal(D[2]) ELSE Number(D)
                   m == Number(M)
                   y == Number(Y)
               IN IF y >= 1 /\ d <= DaysInMonth(y, m) THEN <<y, m, d>> ELSE NaT
          ELSE NaT

to_datetime(cell) == IF cell = NaNText THEN NaT ELSE strptime(cell)

\* Series.dt.month of one value.
dt_month(t) == IF t = NaT THEN NaNMonth ELSE t[2]

(***************************************************************************)
(* Constants of the script.                                                *)
(***************************************************************************)
keep_values ==
  {"PHOENIX CONTACT E-Mobility GmbH", "Phoenix Contact GmbH & Co. KG - Werkzeugbau"}

GPN == "Phoenix Contact - GPN"

\* calendar.month_name[1:]
month_order ==
  <<"January", "February", "March", "April", "May", "June", "July",
    "August", "September", "October", "November", "December">>

Range(f) == {f[i] : i \in DOMAIN f}

(***************************************************************************)
(* Data frame helpers.                                                     *)
(***************************************************************************)
RECURSIVE Take(_, _, _)
\* The rows of df at the positions in keep, in frame order, from position i.
Take(df, keep, i) ==
  IF i > Len(df) THEN <<>>
  ELSE (IF i \in keep THEN <<df[i]>> ELSE <<>>) \o Take(df, keep, i + 1)

\* Boolean indexing df[mask].
Where(df, P(_)) == Take(df, {i \in 1..Len(df) : P(df[i])}, 1)

\* DataFrame.drop_duplicates() / Series.unique(): first occurrences, in order.
drop_duplicates(df) ==
  Take(df, {i \in 1..Len(df) : \A j \in 1..(i - 1) : df[j] # df[i]}, 1)

unique(df, col) == drop_duplicates([i \in 1..Len(df) |-> df[i][col]])

Count(df, P(_)) == Cardinality({i \in 1..Len(df) : P(df[i])})

RECURSIVE Concat(_, _)
\* The concatenation of the first n frames of a sequence of frames.
Concat(parts, n) == IF n = 0 THEN <<>> ELSE Concat(parts, n - 1) \o parts[n]

(***************************************************************************)
(* Lines 29-32: the event sheet, the category code, the test records.      *)
(***************************************************************************)
read_events(rows) ==
  [i \in 1..Len(rows) |->
     [row |-> i, Material |-> rows[i].Material, Name |-> rows[i].Name,
      Organization |-> rows[i].Organization, Date |-> rows[i].Date]]

\* Line 31 raises TypeError when a float does not fit int64.
ExtractRaises(df) ==
  \E i \in 1..Len(df) : Int64Overflows(astype_float(str_extract(df[i].Material)))

with_PC(df) ==
  [i \in 1..Len(df) |->
     [row |-> df[i].row, Material |-> df[i].Material, Name |-> df[i].Name,
      Organization |-> df[i].Organization, Date |-> df[i].Date,
      PC |-> PurchasingCategory(df[i].Material)]]

IsTest(r) == str_contains(str_lower(r.Name), test)

drop_tests(df) == Where(df, LAMBDA r : ~IsTest(r))

(***************************************************************************)
(* Lines 34-39: the mapping sheet and the left merge.                      *)
(***************************************************************************)
read_mapping(rows) ==
  drop_duplicates([i \in 1..Len(rows) |-> [PC |-> rows[i].PC, SMC |-> rows[i].SMC]])

\* The rows one left row gives: one per right row with an equal key (missing
\* keys are equal to each other), or one row with a missing label.
merge_row(l, df2) ==
  LET matches == Where(df2, LAMBDA r : r.PC = l.PC)
  IN IF matches = <<>>
     THEN <<[row |-> l.row, Material |-> l.Material, Name |-> l.Name,
             Organization |-> l.Organization, Date |-> l.Date, PC |-> l.PC,
             Groups |-> NaN]>>
     ELSE [k \in 1..Len(matches) |->
             [row |-> l.row, Material |-> l.Material, Name |-> l.Name,
              Organization |-> l.Organization, Date |-> l.Date, PC |-> l.PC,
              Groups |-> matches[k].SMC]]

merge(df1, df2) ==
  Concat([i \in 1..Len(df1) |-> merge_row(df1[i], df2)], Len(df1))

(***************************************************************************)
(* Lines 38-54: the date, the organisation group, the month.               *)
(***************************************************************************)
\* A missing name passed through instead of mapped to the fallback.
Organization1_keeps_missing(org) == IF org \in keep_values \/ org = NaN THEN org ELSE GPN

Organization1(org) == IF org \in keep_values THEN org ELSE GPN

\* .dt.month is a float column when a date is missing, and
\* calendar.month_name[x] raises TypeError for a float x.
MonthNameRaises(df) ==
  /\ \E i \in 1..Len(df) : to_datetime(df[i].Date) = NaT
  /\ \E i \in 1..Len(df) : to_datetime(df[i].Date) # NaT

\* calendar.month_name[x], then the categorical over month_order.
month_name(month) == IF month = NaNMonth THEN NaN ELSE month_order[month]

enrich(df) ==
  [i \in 1..Len(df) |->
     LET date == to_datetime(df[i].Date)
     IN [row |-> df[i].row, Material |-> df[i].Material, Name |-> df[i].Name,
         Organization |-> df[i].Organization, Date |-> date, PC |-> df[i].PC,
         Groups |-> df[i].Groups,
         Organization1 |-> Organization1(df[i].Organization),
         month |-> dt_month(date),
         month_name |-> month_name(dt_month(date))]]

(***************************************************************************)
(* Lines 61-70: the two multiselects and the filter.                       *)
(***************************************************************************)
NoWidget == [rendered |-> FALSE, options |-> <<>>, value |-> {}]

\* st.multiselect(label, options, default=options): the stored selection of
\* the same widget (same options), else the default.
multiselect(w, options) ==
  IF w.rendered /\ w.options = options THEN w.value ELSE Range(options)

\* The two masks joined with | instead of &.
filter_either(df, orgs, months) ==
  Where(df, LAMBDA r : r.Organization1 \in orgs \/ r.month_name \in months)

filter(df, orgs, months) ==
  Where(df, LAMBDA r : r.Organization1 \in orgs /\ r.month_name \in months)

(***************************************************************************)
(* Lines 76-77, 92-95, 108-109, 135, 141: the aggregates.  obs is the      *)
(* value of observed= that the installed pandas takes when the call does   *)
(* not pass it (False before pandas 3, True from pandas 3).                *)
(***************************************************************************)
Values(df, col) == {df[i][col] : i \in 1..Len(df)}

\* The group keys of one grouper: a categorical grouper gives every
\* category unless observed, any other grouper the values that occur.
Level(df, col, obs) ==
  IF col = "month_name" /\ ~obs THEN Range(month_order) ELSE Values(df, col)

\* groupby([a, b]).size(): rows with a missing key are dropped (dropna=True).
groupby_size(df, a, b, obs) ==
  LET kept == Where(df, LAMBDA r : r[a] # NaN /\ r[b] # NaN)
      keys == IF obs THEN {<<kept[i][a], kept[i][b]>> : i \in 1..Len(kept)}
              ELSE Level(kept, a, obs) \X Level(kept, b, obs)
  IN [k \in keys |-> Count(kept, LAMBDA r : r[a] = k[1] /\ r[b] = k[2])]

\* pivot_table(index, columns, aggfunc="size", fill_value=0).
pivot_table(df, index, columns, obs) ==
  LET size == groupby_size(df, index, columns, obs)
      rows == {k[1] : k \in DOMAIN size}
      cols == {k[2] : k \in DOMAIN size}
  IN [index |-> rows, columns |-> cols,
      cell |-> [k \in rows \X cols |-> IF k \in DOMAIN size THEN size[k] ELSE 0]]

\* .reindex(columns=month_order, fill_value=0)
reindex_columns(pt) ==
  [g \in pt.index |->
     [m \in Range(month_order) |->
        IF m \in pt.columns THEN pt.cell[<<g, m>>] ELSE 0]]

\* .reindex(month_order).reset_index(): a month that is no row of the pivot
\* becomes a row of missing cells.
reindex_rows(pt) ==
  [i \in 1..Len(month_order) |->
     [month_name |-> month_order[i],
      cells |-> [c \in pt.columns |->
                   IF month_order[i] \in pt.index
                   THEN pt.cell[<<month_order[i], c>>] ELSE NaNCell]]]

(***************************************************************************)
(* One run of the script.                                                  *)
(***************************************************************************)
Stopped == [status |-> "stopped"]

Raised == [status |-> "error"]

\* The fallback message with "and" for "or".
MissingBoth(export, sms) == ~export.present /\ ~sms.present

\* Line 24: not export_file or not sms_file.
MissingInput(export, sms) == ~export.present \/ ~sms.present

Script(export, sms, w, obs) ==
  IF MissingInput(export, sms) THEN Stopped
  ELSE LET raw == read_events(export.rows)
       IN IF ExtractRaises(raw) THEN Raised
          ELSE LET df1 == drop_tests(with_PC(raw))
                   df2 == read_mapping(sms.rows)
                   merged == merge(df1, df2)
               IN IF MonthNameRaises(merged) THEN Raised
                  ELSE LET df_merged == enrich(merged)
                           options == unique(df_merged, "Organization1")
                           orgs == multiselect(w.orgs, options)
                           months == multiselect(w.months, month_order)
                           filtered_df == filter(df_merged, orgs, months)
                           df_gpn == Where(filtered_df, LAMBDA r : r.Organization1 = GPN)
                           shown == df_gpn # <<>>
                       IN [status |-> "ok",
                           df1 |-> df1,
                           df2 |-> df2,
                           df_merged |-> df_merged,
                           options |-> options,
                           orgs |-> orgs,
                           months |-> months,
                           filtered_df |-> filtered_df,
                           total_events |-> Len(filtered_df),
                           monthly_counts |->
                             groupby_size(filtered_df, "Organization1", "month_name", obs),
                           df_gpn |-> df_gpn,
                           gpn_shown |-> shown,
                           pivot_cluster |->
                             IF shown
                             THEN reindex_columns(pivot_table(df_gpn, "Groups", "month_name", obs))
                             ELSE <<>>,
                           pivot_org |->
                             IF shown
                             THEN reindex_columns(pivot_table(df_gpn, "Organization", "month_name", obs))
                             ELSE <<>>,
                           pivot_table1 |->
                             reindex_rows(pivot_table(filtered_df, "month_name", "Organization1", obs)),
                           pivot_table2 |->
                             IF shown
                             THEN reindex_rows(pivot_table(df_gpn, "month_name", "Groups", obs))
                             ELSE <<>>]

\* The widget state Streamlit keeps after a run: that of the widgets the run
\* rendered.
WidgetsAfter(run) ==
  IF run.status = "ok"
  THEN [orgs |-> [rendered |-> TRUE, options |-> run.options, value |-> run.orgs],
        months |-> [rendered |-> TRUE, options |-> month_order, value |-> run.months]]
  ELSE [orgs |-> NoWidget, months |-> NoWidget]

NoFile == [present |-> FALSE, rows |-> <<>>]

File(rows) == [present |-> TRUE, rows |-> rows]

(***************************************************************************)
(* Input spaces.                                                           *)
(***************************************************************************)
Texts(alphabet, n) == UNION {[1..k -> alphabet] : k \in 0..n}

Files(rows, n) == UNION {[1..k -> rows] : k \in 0..n}

MaterialAlphabet == {"[", "]", "0", "1", "7", "a"}

NameAlphabet == {"t", "T", "e", "s", "S", "x"}

Bracketed(ds) == <<"[">> \o [i \in 1..Len(ds) |-> Digits[ds[i] + 1]] \o <<"]">>

\* Digit runs around 2^53 and 2^63.
LongRuns ==
  {<<9, 0, 0, 7, 1, 9, 9, 2, 5, 4, 7, 4, 0, 9, 9, 1>>,
   <<9, 0, 0, 7, 1, 9, 9, 2, 5, 4, 7, 4, 0, 9, 9, 2>>,
   <<9, 0, 0, 7, 1, 9, 9, 2, 5, 4, 7, 4, 0, 9, 9, 3>>,
   <<9, 0, 0, 7, 1, 9, 9, 2, 5, 4, 7, 4, 0, 9, 9, 5>>,
   <<1, 2, 3, 4, 5, 6, 7, 8, 9, 0, 1, 2, 3, 4, 5, 6, 7, 8>>,
   <<9, 2, 2, 3, 3, 7, 2, 0, 3, 6, 8, 5, 4, 7, 7, 5, 2, 9, 5>>,
   <<9, 2, 2, 3, 3, 7, 2, 0, 3, 6, 8, 5, 4, 7, 7, 5, 8, 0, 7>>,
   <<9, 9, 9, 9, 9, 9, 9, 9, 9, 9, 9, 9, 9, 9, 9, 9, 9, 9, 9, 9>>}

MaterialCells ==
  Texts(MaterialAlphabet, MaxMaterialLen) \cup {Bracketed(r) : r \in LongRuns}
  \cup {NaNText}

NameCells == Texts(NameAlphabet, MaxNameLen) \cup {NaNText}

Widget == <<"W", "i", "d", "g", "e", "t", " ", "[", "1", "2", "]">>
Gadget == <<"G", "a", "d", "g", "e", "t", " ", "[", "9", "9", "]">>
Spare == <<"S", "p", "a", "r", "e">>
Prod == <<"P", "r", "o", "d">>
TestRun == <<"T", "e", "s", "t", "R", "u", "n">>
Jan15 == <<"1", "5", "/", "0", "1", "/", "2", "0", "2", "4">>
Mar01 == <<"0", "1", "/", "0", "3", "/", "2", "0", "2", "4">>
Mar1 == <<"1", "/", "3", "/", "2", "0", "2", "4">>
Feb30 == <<"3", "0", "/", "0", "2", "/", "2", "0", "2", "4">>
IsoMar == <<"2", "0", "2", "4", "-", "0", "3", "-", "0", "1">>

Code12 == <<1, 2>>

Acme == "Acme"
EMobility == "PHOENIX CONTACT E-Mobility GmbH"
Werkzeugbau == "Phoenix Contact GmbH & Co. KG - Werkzeugbau"

OrganizationCells ==
  {EMobility, Werkzeugbau, Acme, NaN, GPN,
   "phoenix contact e-mobility gmbh", "PHOENIX CONTACT E-Mobility GmbH ",
   " Phoenix Contact GmbH & Co. KG - Werkzeugbau"}

Event(material, name, org, date) ==
  [Material |-> material, Name |-> name, Organization |-> org, Date |-> date]

Mapping(pc, smc) == [PC |-> pc, SMC |-> smc]

ClusterA == "ClusterA"
ClusterB == "ClusterB"

EndToEndMapping == <<Mapping(Code12, ClusterA)>>

\* The selections a user makes of the months: some of the first
\* MaxToggled months, or all months but some of those.
MonthSelections ==
  LET first == {month_order[i] : i \in 1..MaxToggled}
  IN SUBSET first \cup {Range(month_order) \ S : S \in SUBSET first}

(***************************************************************************)
(* The session: uploads, removals and selections, each followed by a run   *)
(* of the whole script.                                                    *)
(***************************************************************************)
SessionRows ==
  {Event(Widget, Prod, Acme, Mar01),
   Event(Spare, Prod, EMobility, Jan15)}

SessionMappings == {EndToEndMapping, <<Mapping(NA, ClusterB), Mapping(Code12, ClusterB)>>}

Rerun(export, sms, w) ==
  /\ export_file' = export
  /\ sms_file' = sms
  /\ out' = Script(export, sms, w, observed)
  /\ widgets' = WidgetsAfter(out')
  /\ UNCHANGED observed

UploadExport ==
  \E rows \in Files(SessionRows, MaxSessionRows) :
    /\ export_file # File(rows)
    /\ Rerun(File(rows), sms_file, widgets)

RemoveExport == export_file.present /\ Rerun(NoFile, sms_file, widgets)

UploadSms ==
  \E rows \in SessionMappings :
    /\ sms_file # File(rows)
    /\ Rerun(export_file, File(rows), widgets)

RemoveSms == sms_file.present /\ Rerun(export_file, NoFile, widgets)

SelectOrgs ==
  /\ out.status = "ok"
  /\ \E S \in SUBSET Range(out.options) :
       /\ S # widgets.orgs.value
       /\ Rerun(export_file, sms_file, [widgets EXCEPT !.orgs.value = S])

SelectMonths ==
  /\ out.status = "ok"
  /\ \E S \in MonthSelections :
       /\ S # widgets.months.value
       /\ Rerun(export_file, sms_file, [widgets EXCEPT !.months.value = S])

Init ==
  /\ export_file = NoFile
  /\ sms_file = NoFile
  /\ observed \in BOOLEAN
  /\ out = Script(NoFile, NoFile, [orgs |-> NoWidget, months |-> NoWidget], observed)
  /\ widgets = WidgetsAfter(out)

Next ==
  \/ UploadExport
  \/ RemoveExport
  \/ UploadSms
  \/ RemoveSms
  \/ SelectOrgs
  \/ SelectMonths

Spec == Init /\ [][Next]_vars

(***************************************************************************)
(* Single runs of the script on enumerated inputs: the uploaded files and  *)
(* the selections are drawn at the start and the script runs once.         *)
(***************************************************************************)
Pending == [status |-> "pending"]

NoWidgets == [orgs |-> NoWidget, months |-> NoWidget]

RunScript == out.status = "pending" /\ Rerun(export_file, sms_file, widgets)

\* The uploads are drawn from the given files; with select, the user has
\* also made a selection in both multiselects.
InitRun(exports, mappings, select) ==
  /\ observed \in BOOLEAN
  /\ export_file \in {File(rows) : rows \in exports}
  /\ sms_file \in {File(rows) : rows \in mappings}
  /\ LET first == Script(export_file, sms_file, NoWidgets, observed)
     IN IF select /\ first.status = "ok"
        THEN \E S \in SUBSET Range(first.options), M \in MonthSelections :
               widgets = [orgs |-> [rendered |-> TRUE, options |-> first.options, value |-> S],
                          months |-> [rendered |-> TRUE, options |-> month_order, value |-> M]]
        ELSE widgets = NoWidgets
  /\ out = Pending

NameFiles ==
  {<<Event(Widget, n, Acme, Mar01)>> : n \in NameCells}
  \cup {<<Event(Spare, NaNText, EMobility, Jan15), Event(Widget, n, Acme, Mar01)>> : n \in NameCells}

SpecName == InitRun(NameFiles, {EndToEndMapping}, FALSE) /\ [][RunScript]_vars

MaterialFiles == {<<Event(m, Prod, Acme, Mar01)>> : m \in MaterialCells}

SpecMaterial == InitRun(MaterialFiles, {EndToEndMapping}, FALSE) /\ [][RunScript]_vars

JoinRows ==
  {Event(m, Prod, Acme, Mar01) : m \in {Spare, Widget, Gadget}}
  \cup {Event(Widget, TestRun, Acme, Mar01)}

JoinMappingRows == {Mapping(pc, smc) : pc \in {NA, Code12}, smc \in {NaN, ClusterA, ClusterB}}

SpecJoin ==
  InitRun(Files(JoinRows, MaxRows), Files(JoinMappingRows, MaxMapRows), FALSE)
  /\ [][RunScript]_vars

OrgRows == {Event(Widget, Prod, o, Mar01) : o \in OrganizationCells}

SpecOrg == InitRun(Files(OrgRows, MaxRows), {EndToEndMapping}, FALSE) /\ [][RunScript]_vars

FilterRows ==
  {Event(Widget, Prod, Acme, Mar1), Event(Spare, Prod, Acme, Mar1),
   Event(Widget, Prod, EMobility, Jan15), Event(Widget, Prod, Acme, NaNText),
   Event(Spare, Prod, EMobility, Feb30), Event(Widget, Prod, Acme, IsoMar)}

SpecFilter == InitRun(Files(FilterRows, MaxRows), {EndToEndMapping}, TRUE) /\ [][RunScript]_vars

(***************************************************************************)
(* Properties.                                                             *)
(***************************************************************************)
Ran == out.status # "pending"

Ok == out.status = "ok"

AllMonths ==
  {"January", "February", "March", "April", "May", "June", "July",
   "August", "September", "October", "November", "December"}

\* The positions of the rows of df that satisfy P, and the k-th of them.
Positions(df, P(_)) == {i \in 1..Len(df) : P(df[i])}

Kth(S, k) == CHOOSE i \in S : Cardinality({j \in S : j <= i}) = k

RECURSIVE Sum(_, _)
\* The sum of f over the set S of arguments.
Sum(f, S) ==
  IF S = {} THEN 0
  ELSE LET x == CHOOSE x \in S : TRUE IN f[x] + Sum(f, S \ {x})

\* The rows of the loaded event sheet that the transformed set holds.
Copies(i) == {j \in 1..Len(out.df_merged) : out.df_merged[j].row = i}

\* C1: with a deduplicated mapping that holds at most one row per code,
\* every event that survives the test exclusion is exactly one row of the
\* merged set, so the two row counts are equal; its Groups is the mapped
\* label when its code occurs in the mapping, and missing when its code is
\* missing or occurs in no mapping row.
C1_JoinKeepsIdentity ==
  (Ok /\ \A a, b \in 1..Len(out.df2) : out.df2[a].PC = out.df2[b].PC => a = b)
  => /\ Len(out.df_merged) = Len(out.df1)
     /\ \A i \in 1..Len(out.df1) : Cardinality(Copies(out.df1[i].row)) = 1
     /\ \A j \in 1..Len(out.df_merged) :
          LET r == out.df_merged[j]
              hits == {k \in 1..Len(out.df2) : r.PC # NA /\ out.df2[k].PC = r.PC}
          IN IF hits = {} THEN r.Groups = NaN
             ELSE \A k \in hits : r.Groups = out.df2[k].SMC

\* C2: the filtered set is exactly the records of the transformed set whose
\* Organization1 is selected and whose month name is selected, in their
\* order and unaltered; an empty selection of either kind gives the empty
\* set and a total of 0.
C2_FilterIsConjunction ==
  Ok =>
    LET keep == Positions(out.df_merged,
                          LAMBDA r : r.Organization1 \in out.orgs /\ r.month_name \in out.months)
    IN /\ Len(out.filtered_df) = Cardinality(keep)
       /\ \A k \in 1..Len(out.filtered_df) : out.filtered_df[k] = out.df_merged[Kth(keep, k)]
       /\ out.total_events = Cardinality(keep)
       /\ (out.orgs = {} \/ out.months = {}) => (out.filtered_df = <<>> /\ out.total_events = 0)

\* C2 happens: a selection that keeps one record and drops another.
C2_Witness ==
  /\ Ok
  /\ Len(out.df_merged) = 2
  /\ Len(out.filtered_df) = 1
  /\ out.months # AllMonths
  /\ out.orgs # {}

\* C3: Organization1 is the organization name itself when the name is one of
\* the two allow-listed strings, and the fallback constant for every other
\* value, a missing name and names that differ in case or whitespace
\* included.
C3_NormalizationIsBinary ==
  Ok =>
    \A j \in 1..Len(out.df_merged) :
      LET r == out.df_merged[j]
      IN IF r.Organization = "PHOENIX CONTACT E-Mobility GmbH"
            \/ r.Organization = "Phoenix Contact GmbH & Co. KG - Werkzeugbau"
         THEN r.Organization1 = r.Organization
         ELSE r.Organization1 = "Phoenix Contact - GPN"

\* C3 happens: a missing name and a lower-case variant next to an
\* allow-listed name.
C3_Witness ==
  /\ Ok
  /\ \E j \in 1..Len(out.df_merged) :
       out.df_merged[j].Organization \in {NaN, "phoenix contact e-mobility gmbh"}
  /\ \E j \in 1..Len(out.df_merged) :
       out.df_merged[j].Organization = "PHOENIX CONTACT E-Mobility GmbH"

\* "test" in any letter case somewhere in the text.
HasTestAnyCase(s) ==
  \E p \in 1..(Len(s) - 3) :
    /\ s[p] \in {"t", "T"}
    /\ s[p + 1] \in {"e", "E"}
    /\ s[p + 2] \in {"s", "S"}
    /\ s[p + 3] \in {"t", "T"}

RunStarts(s) ==
  {i \in 1..Len(s) :
     /\ s[i] = "["
     /\ \E e \in (i + 2)..Len(s) :
          s[e] = "]" /\ \A k \in (i + 1)..(e - 1) : IsDigit(s[k])}

\* The digits of the first bracketed digit run of s.
FirstRun(s) ==
  LET i == CHOOSE i \in RunStarts(s) : \A j \in RunStarts(s) : i <= j
      e == CHOOSE e \in (i + 2)..Len(s) :
             s[e] = "]" /\ \A k \in (i + 1)..(e - 1) : IsDigit(s[k])
  IN [k \in 1..(e - i - 1) |-> DigitVal(s[i + k])]

\* The integer that the first bracketed digit run of a material text
\* denotes, or NA.
IntegerOfFirstRun(cell) ==
  IF cell = NaNText \/ RunStarts(cell) = {} THEN NA ELSE Canon(FirstRun(cell))

\* C5: the category code of every row is the integer value of the first
\* bracketed digit run of its material text, or missing when the text has
\* no such run or is missing; the extraction never aborts the run.
C5_CategoryExtraction ==
  Ran =>
    /\ Ok
    /\ \A j \in 1..Len(out.df_merged) :
         out.df_merged[j].PC = IntegerOfFirstRun(out.df_merged[j].Material)

\* The pairs (Organization1, month name) that a filtered record has.
FilteredPairs ==
  {<<out.filtered_df[i].Organization1, out.filtered_df[i].month_name>> :
     i \in 1..Len(out.filtered_df)}

\* C6: monthly_counts holds one entry per (Organization1, month name) pair
\* that a filtered record has, with the number of such records, and no
\* entry whose count is zero.
C6_MonthlyCounts ==
  Ok =>
    /\ DOMAIN out.monthly_counts = FilteredPairs
    /\ \A k \in DOMAIN out.monthly_counts :
         /\ out.monthly_counts[k] =
              Count(out.filtered_df, LAMBDA r : r.Organization1 = k[1] /\ r.month_name = k[2])
         /\ out.monthly_counts[k] # 0

\* C7: for a non-empty fallback-organization subset the cross-tab has one
\* row per cluster label of the subset, the missing label included, the 12
\* month columns, and cells that sum to the size of the subset.
C7_ClusterCrossTab ==
  (Ok /\ out.gpn_shown) =>
    /\ DOMAIN out.pivot_cluster = {out.df_gpn[i].Groups : i \in 1..Len(out.df_gpn)}
    /\ \A g \in DOMAIN out.pivot_cluster :
         /\ DOMAIN out.pivot_cluster[g] = AllMonths
         /\ \A m \in AllMonths :
              out.pivot_cluster[g][m] =
                Count(out.df_gpn, LAMBDA r : r.Groups = g /\ r.month_name = m)
    /\ Sum([g \in DOMAIN out.pivot_cluster |-> Sum(out.pivot_cluster[g], AllMonths)],
           DOMAIN out.pivot_cluster)
       = Len(out.df_gpn)

\* C8: pivot table 1 has exactly 12 rows, January to December in that
\* order, also for an empty filtered set, and every cell is the number of
\* filtered records of that month and Organization1.
C8_MonthPivot ==
  Ok =>
    /\ Len(out.pivot_table1) = 12
    /\ \A i \in 1..Len(out.pivot_table1) :
         LET row == out.pivot_table1[i]
         IN /\ row.month_name = month_order[i]
            /\ \A c \in DOMAIN row.cells :
                 row.cells[c] =
                   Count(out.filtered_df,
                         LAMBDA r : r.month_name = row.month_name /\ r.Organization1 = c)

\* The selections a run makes by default.
DefaultSelections ==
  out.orgs = Range(out.options) /\ out.months = AllMonths

\* C10: an event whose entry date is missing or does not parse has a missing
\* month and month name and is in the filtered set under no selection; with
\* the default selections the total is the number of transformed records
\* whose date parses.
C10_NullMonthNeverSelected ==
  Ran =>
    /\ Ok
    /\ \A j \in 1..Len(out.df_merged) :
         LET r == out.df_merged[j]
         IN r.Date = NaT =>
              /\ r.month = NaNMonth
              /\ r.month_name = NaN
              /\ \A k \in 1..Len(out.filtered_df) : out.filtered_df[k].row # r.row
    /\ DefaultSelections =>
         out.total_events = Count(out.df_merged, LAMBDA r : r.Date # NaT)

\* The widget state of a user who has the given selections on screen.
Selected(options, orgs, months) ==
  [orgs |-> [rendered |-> TRUE, options |-> options, value |-> orgs],
   months |-> [rendered |-> TRUE, options |-> month_order, value |-> months]]

\* C9: after any sequence of uploads, replacements, removals and selections,
\* with both files present the output is that of a run from scratch on the
\* two current files and the current selections, which are selections among
\* the options of the current files; with a file absent nothing is produced.
C9_StatelessRecomputation ==
  IF ~export_file.present \/ ~sms_file.present
  THEN out = [status |-> "stopped"] /\ ~widgets.orgs.rendered /\ ~widgets.months.rendered
  ELSE LET scratch == Script(export_file, sms_file, NoWidgets, observed)
       IN /\ out.status = scratch.status
          /\ Ok =>
               /\ out.options = scratch.options
               /\ out.orgs \subseteq Range(scratch.options)
               /\ out.months \subseteq AllMonths
               /\ widgets = Selected(scratch.options, out.orgs, out.months)
               /\ out = Script(export_file, sms_file,
                               Selected(scratch.options, out.orgs, out.months), observed)

\* C9 happens: both files are present and a run shows a selection of some
\* organizations and some months that the user has made.
C9_Witness ==
  /\ export_file.present
  /\ sms_file.present
  /\ Ok
  /\ out.orgs # Range(out.options)
  /\ out.months # AllMonths
  /\ out.total_events > 0

====
